---------------------------- MODULE Spec2Model ----------------------------
(***************************************************************************)
(* A model of the INA260 driver (src/INA260.h, src/INA260.cpp): the driver *)
(* object (address, devices[], deviceCount, the static wireInitialized),   *)
(* the two-wire bus and the register file of the device behind it.         *)
(*                                                                         *)
(* The device is modelled as a plain register file: an acknowledged write  *)
(* stores the 16-bit value sent, a read that delivers two bytes returns    *)
(* the value held.  A transaction may fail (no acknowledge, fewer than two *)
(* bytes delivered); its outcome is an input of every action.              *)
(*                                                                         *)
(* Fractional results (the 1.25 scale) are kept exactly, in quarter units: *)
(* a returned value v is represented by the integer 4 * v.                 *)
(***************************************************************************)
EXTENDS Integers, Sequences, FiniteSets, TLC

VARIABLES
    address,          \* INA260::address (uint8_t)
    devices,          \* INA260::devices[16]
    deviceCount,      \* INA260::deviceCount (int)
    oob,              \* a store of findDevices fell outside devices[0..15]
    wireInitialized,  \* the function-local static of begin()
    intBits,          \* width of int in the build (16 on AVR, 32 elsewhere)
    regs,             \* the device's register file
    ackSet,           \* addresses that acknowledge a zero-length transaction
    call,             \* the last completed call: op, arg, ret, bus transactions
    addressSet,       \* history: setAddress has been called
    faults,           \* environment: bus transactions can fail
    clean,            \* history: every bus transaction so far succeeded
    lastEnable        \* history: the kind of the last enable*Alert call

vars == <<address, devices, deviceCount, oob, wireInitialized, intBits, regs,
          ackSet, faults, call, addressSet, clean, lastEnable>>

(***************************************************************************)
(* Register map and enumerations (INA260.h)                                *)
(***************************************************************************)
INA260_I2CADDR_DEFAULT == 64
INA260_CONFIG_REGISTER == 0
INA260_CURRENT_REGISTER == 1
INA260_VOLTAGE_REGISTER == 2
INA260_POWER_REGISTER == 3
INA260_MASK_ENABLE_REGISTER == 6
INA260_ALERT_LIMIT_REGISTER == 7
INA260_MANUFACTURER_ID_REGISTER == 254
INA260_DIE_ID_REGISTER == 255

DevicesLen == 16

Registers ==
    {INA260_CONFIG_REGISTER, INA260_CURRENT_REGISTER, INA260_VOLTAGE_REGISTER,
     INA260_POWER_REGISTER, INA260_MASK_ENABLE_REGISTER,
     INA260_ALERT_LIMIT_REGISTER, INA260_MANUFACTURER_ID_REGISTER,
     INA260_DIE_ID_REGISTER}

Pow2(n) == 2 ^ n
Word == 0 .. 65535
Byte == 0 .. 255

\* A bitfield of a 16-bit union: its lowest bit and its width.  GCC allocates
\* bitfields from the least significant bit on every little-endian target.
Field(shift, width) == [shift |-> shift, width |-> width]

\* union ConfigurationRegister
CfgMode == Field(0, 3)
CfgIshct == Field(3, 3)
CfgVbusct == Field(6, 3)
CfgAvg == Field(9, 3)
CfgRst == Field(15, 1)

\* union MaskEnableRegister
MeLen == Field(0, 1)
MeApol == Field(1, 1)
MeOvf == Field(2, 1)
MeCvrf == Field(3, 1)
MeAff == Field(4, 1)
MeCnvr == Field(10, 1)
MePol == Field(11, 1)
MeBul == Field(12, 1)
MeBol == Field(13, 1)
MeUcl == Field(14, 1)
MeOcl == Field(15, 1)

\* union DieIdRegister
DieRid == Field(0, 4)
DieDid == Field(4, 12)

\* reading a bitfield member
GetField(raw, f) == (raw \div Pow2(f.shift)) % Pow2(f.width)

\* assigning a bitfield member: the value is truncated to the field's width
SetField(raw, f, v) ==
    raw - GetField(raw, f) * Pow2(f.shift) + (v % Pow2(f.width)) * Pow2(f.shift)

BoolInt(b) == IF b THEN 1 ELSE 0

(***************************************************************************)
(* Arithmetic of the build                                                 *)
(***************************************************************************)
\* uint16_t * int.  With a 16-bit int the uint16_t operand promotes to
\* unsigned int and the product is taken modulo 2^16; with a 32-bit int it
\* promotes to int and the product of a 16-bit value and 10 fits.
MulInt(bits, r, k) == IF bits = 16 THEN (r * k) % Pow2(16) ELSE r * k

\* Conversion of the non-negative value n/4 to binary32 (24-bit significand,
\* round to nearest, ties to even), in quarter units.
Float32(n) ==
    IF n < Pow2(24) THEN n
    ELSE LET k == CHOOSE e \in 1 .. 6 : n < Pow2(24 + e) /\ n >= Pow2(23 + e)
             ulp == Pow2(k)
             lo == (n \div ulp) * ulp
             rem == n - lo
         IN  IF 2 * rem < ulp THEN lo
             ELSE IF 2 * rem > ulp THEN lo + ulp
             ELSE IF (lo \div ulp) % 2 = 0 THEN lo ELSE lo + ulp

\* uint16_t value = x / 1.25: the quotient 4x/5 is either an integer or at
\* least 1/5 away from one, so the floating-point rounding never crosses an
\* integer and the conversion to uint16_t truncates to floor(4x/5).
DivBy125(x) == (4 * x) \div 5

\* uint16_t value = x / 10: integer division
DivBy10(x) == x \div 10

(***************************************************************************)
(* The bus and the device                                                  *)
(***************************************************************************)
Tx(kind, addr, reg, val, ok) ==
    [kind |-> kind, addr |-> addr, reg |-> reg, val |-> val, ok |-> ok]

\* INA260::readRegister: the register pointer is sent, two bytes are
\* requested; with two bytes available the result is (msb << 8) | lsb,
\* otherwise 0.
ReadRegister(rf, addr, reg, ok) ==
    LET msb == rf[reg] \div 256
        lsb == rf[reg] % 256
        val == IF ok THEN (msb * 256) + lsb ELSE 0
    IN  [val |-> val, tx |-> Tx("read", addr, reg, val, ok)]

\* INA260::writeRegister: the register pointer, the high byte and the low
\* byte are sent; the result is whether the device acknowledged.  An
\* acknowledged write stores the two bytes.
WriteRegister(rf, addr, reg, value, ok) ==
    LET hi == (value \div 256) % 256
        lo == value % 256
    IN  [rf |-> IF ok THEN [rf EXCEPT ![reg] = hi * 256 + lo] ELSE rf,
         ret |-> ok,
         tx |-> Tx("write", addr, reg, value, ok)]

ReadConfigurationRegister(rf, addr, ok) ==
    ReadRegister(rf, addr, INA260_CONFIG_REGISTER, ok)

WriteConfigurationRegister(rf, addr, value, ok) ==
    WriteRegister(rf, addr, INA260_CONFIG_REGISTER, value, ok)

ReadMaskEnableRegister(rf, addr, ok) ==
    ReadRegister(rf, addr, INA260_MASK_ENABLE_REGISTER, ok)

WriteMaskEnableRegister(rf, addr, value, ok) ==
    WriteRegister(rf, addr, INA260_MASK_ENABLE_REGISTER, value, ok)

WriteAlertLimitRegister(rf, addr, value, ok) ==
    WriteRegister(rf, addr, INA260_ALERT_LIMIT_REGISTER, value, ok)


(***************************************************************************)
(* The handlers.  Each is an operator of the register file rf, the address *)
(* the driver targets, the arguments and the outcome of every bus          *)
(* transaction the handler issues; it yields the register file afterwards, *)
(* the value returned and the transactions issued, in order.               *)
(***************************************************************************)
\* Arguments and return values carry their C++ type, so that the values of
\* different methods can be told apart: nothing (void), bool, a number, the
\* characters of a String.
NoValue == <<"void">>
BoolValue(b) == <<"bool", b>>
NumValue(n) == <<"number", n>>
StringValue(chars) == <<"String">> \o chars

Done(rf, ret, bus) == [rf |-> rf, ret |-> ret, bus |-> bus]

\* INA260::reset
Reset(rf, addr, okW) ==
    LET reg == SetField(0, CfgRst, 1)
        w == WriteConfigurationRegister(rf, addr, reg, okW)
    IN  Done(w.rf, BoolValue(w.ret), <<w.tx>>)

\* INA260::begin, after Wire.begin(): the result of reset() is dropped and
\* the static flag, by then true, is returned.
Begin(rf, addr, okW) ==
    LET initialized == TRUE
        r == Reset(rf, addr, okW)
    IN  Done(r.rf, BoolValue(initialized), r.bus)

\* INA260::readCurrent / readBusVoltage: uint16_t * 1.25 is a double product,
\* returned as float
Scale125(raw) == Float32(5 * raw)

\* INA260::readPower / readAlertLimitRegister: uint16_t * 10 is an integer
\* product in the width of int, then converted
Scale10(bits, raw) == Float32(4 * MulInt(bits, raw, 10))

ReadCurrent(rf, addr, okR) ==
    LET r == ReadRegister(rf, addr, INA260_CURRENT_REGISTER, okR)
    IN  Done(rf, NumValue(Scale125(r.val)), <<r.tx>>)

\* a bus voltage reader that reads the Current register
ReadBusVoltageWrongRegister(rf, addr, okR) ==
    LET r == ReadRegister(rf, addr, INA260_CURRENT_REGISTER, okR)
    IN  [rf |-> rf, ret |-> NumValue(Scale125(r.val)), bus |-> <<r.tx>>]

ReadBusVoltage(rf, addr, okR) ==
    LET r == ReadRegister(rf, addr, INA260_VOLTAGE_REGISTER, okR)
    IN  Done(rf, NumValue(Scale125(r.val)), <<r.tx>>)

ReadPower(rf, addr, bits, okR) ==
    LET r == ReadRegister(rf, addr, INA260_POWER_REGISTER, okR)
    IN  Done(rf, NumValue(Scale10(bits, r.val)), <<r.tx>>)

\* INA260::readConfigurationRegister / readMaskEnableRegister / readDieId as
\* called by the user: the raw value
ReadConfiguration(rf, addr, okR) ==
    LET r == ReadConfigurationRegister(rf, addr, okR)
    IN  Done(rf, NumValue(r.val), <<r.tx>>)

ReadMaskEnable(rf, addr, okR) ==
    LET r == ReadMaskEnableRegister(rf, addr, okR)
    IN  Done(rf, NumValue(r.val), <<r.tx>>)

ReadDieId(rf, addr, okR) ==
    LET r == ReadRegister(rf, addr, INA260_DIE_ID_REGISTER, okR)
    IN  Done(rf, NumValue(r.val), <<r.tx>>)

\* INA260::readManufactuerId: the two characters of the string
ReadManufactuerId(rf, addr, okR) ==
    LET r == ReadRegister(rf, addr, INA260_MANUFACTURER_ID_REGISTER, okR)
    IN  Done(rf, StringValue(<<(r.val \div 256) % 256, r.val % 256>>),
             <<r.tx>>)

\* a reader of the alert limit that always scales by 1.25
ReadAlertLimitRegisterNoPol(rf, addr, bits, okM, okL) ==
    LET reg == ReadMaskEnableRegister(rf, addr, okM)
        lim == ReadRegister(rf, addr, INA260_ALERT_LIMIT_REGISTER, okL)
    IN  [rf |-> rf, ret |-> NumValue(Scale125(lim.val)), bus |-> <<reg.tx, lim.tx>>]

\* INA260::readAlertLimitRegister: the Mask/Enable register is read for its
\* pol bit, then the Alert Limit register is read and scaled
ReadAlertLimitRegister(rf, addr, bits, okM, okL) ==
    LET reg == ReadMaskEnableRegister(rf, addr, okM)
        lim == ReadRegister(rf, addr, INA260_ALERT_LIMIT_REGISTER, okL)
        value == IF GetField(reg.val, MePol) = 1
                 THEN Scale10(bits, lim.val)
                 ELSE Scale125(lim.val)
    IN  Done(rf, NumValue(value), <<reg.tx, lim.tx>>)

\* the bitfield getters: one read, one member
GetConfigField(rf, addr, f, okR) ==
    LET r == ReadConfigurationRegister(rf, addr, okR)
    IN  Done(rf, NumValue(GetField(r.val, f)), <<r.tx>>)

GetMaskFlag(rf, addr, f, okR) ==
    LET r == ReadMaskEnableRegister(rf, addr, okR)
    IN  Done(rf, BoolValue(GetField(r.val, f) = 1), <<r.tx>>)

GetMode(rf, addr, okR) == GetConfigField(rf, addr, CfgMode, okR)
GetCurrentConversionTime(rf, addr, okR) == GetConfigField(rf, addr, CfgIshct, okR)
GetVoltageConversionTime(rf, addr, okR) == GetConfigField(rf, addr, CfgVbusct, okR)
GetAveragingCount(rf, addr, okR) == GetConfigField(rf, addr, CfgAvg, okR)
IsMathOverFlow(rf, addr, okR) == GetMaskFlag(rf, addr, MeOvf, okR)
IsAlert(rf, addr, okR) == GetMaskFlag(rf, addr, MeAff, okR)
IsAlertPolaritySet(rf, addr, okR) == GetMaskFlag(rf, addr, MeApol, okR)
IsAlertLatchSet(rf, addr, okR) == GetMaskFlag(rf, addr, MeLen, okR)
IsConversionRready(rf, addr, okR) == GetMaskFlag(rf, addr, MeCvrf, okR)

\* INA260::clearAlert: the register is read and the value dropped
ClearAlert(rf, addr, okR) ==
    LET r == ReadMaskEnableRegister(rf, addr, okR)
    IN  Done(rf, NoValue, <<r.tx>>)

\* a setter that builds the register from zero instead of reading it
SetConfigFieldFromZero(rf, addr, f, v, okR, okW) ==
    LET r == ReadConfigurationRegister(rf, addr, okR)
        reg == SetField(0, f, v)
        w == WriteConfigurationRegister(rf, addr, reg, okW)
    IN  [rf |-> w.rf, ret |-> BoolValue(w.ret), bus |-> <<r.tx, w.tx>>]

\* the single-field setters of the Configuration register: read, assign one
\* member, write back
SetConfigField(rf, addr, f, v, okR, okW) ==
    LET r == ReadConfigurationRegister(rf, addr, okR)
        reg == SetField(r.val, f, v)
        w == WriteConfigurationRegister(rf, addr, reg, okW)
    IN  Done(w.rf, BoolValue(w.ret), <<r.tx, w.tx>>)

\* the single-field setters of the Mask/Enable register
SetMaskFlag(rf, addr, f, b, okR, okW) ==
    LET r == ReadMaskEnableRegister(rf, addr, okR)
        reg == SetField(r.val, f, BoolInt(b))
        w == WriteMaskEnableRegister(rf, addr, reg, okW)
    IN  Done(w.rf, BoolValue(w.ret), <<r.tx, w.tx>>)

\* INA260::setMode returns nothing
SetMode(rf, addr, mode, okR, okW) ==
    LET h == SetConfigField(rf, addr, CfgMode, mode, okR, okW)
    IN  Done(h.rf, NoValue, h.bus)

SetCurrentConversionTime(rf, addr, time, okR, okW) ==
    SetConfigField(rf, addr, CfgIshct, time, okR, okW)

SetVoltageConversionTime(rf, addr, time, okR, okW) ==
    SetConfigField(rf, addr, CfgVbusct, time, okR, okW)

SetAveragingCount(rf, addr, count, okR, okW) ==
    SetConfigField(rf, addr, CfgAvg, count, okR, okW)

SetAlertPolarity(rf, addr, polarity, okR, okW) ==
    SetMaskFlag(rf, addr, MeApol, polarity, okR, okW)

SetAlertLatch(rf, addr, latch, okR, okW) ==
    SetMaskFlag(rf, addr, MeLen, latch, okR, okW)

SetConversionReadyAlert(rf, addr, state, okR, okW) ==
    SetMaskFlag(rf, addr, MeCnvr, state, okR, okW)

\* INA260::setCurrentLimit / setBusVoltageLimit / setPowerLimit
SetCurrentLimit(rf, addr, milliAmps, okW) ==
    LET w == WriteAlertLimitRegister(rf, addr, DivBy125(milliAmps), okW)
    IN  Done(w.rf, BoolValue(w.ret), <<w.tx>>)

SetBusVoltageLimit(rf, addr, milliVolts, okW) ==
    LET w == WriteAlertLimitRegister(rf, addr, DivBy125(milliVolts), okW)
    IN  Done(w.rf, BoolValue(w.ret), <<w.tx>>)

SetPowerLimit(rf, addr, milliWatts, okW) ==
    LET w == WriteAlertLimitRegister(rf, addr, DivBy10(milliWatts), okW)
    IN  Done(w.rf, BoolValue(w.ret), <<w.tx>>)

\* the five limit-alert members of the Mask/Enable register, as assigned by
\* an enable*Alert method: the named one to 1, the other four to 0
AlertKinds == {"ocl", "ucl", "bol", "bul", "pol"}

AlertField(kind) ==
    CASE kind = "ocl" -> MeOcl
      [] kind = "ucl" -> MeUcl
      [] kind = "bol" -> MeBol
      [] kind = "bul" -> MeBul
      [] kind = "pol" -> MePol

\* an alert selection that sets the named member and clears no other
SelectAlertKeepOthers(raw, kind) == SetField(raw, AlertField(kind), 1)

SelectAlert(raw, kind) ==
    LET a == SetField(raw, MeOcl, BoolInt(kind = "ocl"))
        b == SetField(a, MeUcl, BoolInt(kind = "ucl"))
        c == SetField(b, MeBol, BoolInt(kind = "bol"))
        d == SetField(c, MeBul, BoolInt(kind = "bul"))
    IN  SetField(d, MePol, BoolInt(kind = "pol"))

\* the limit setter an enable*Alert method delegates to
SetLimitFor(rf, addr, kind, limit, okW) ==
    CASE kind \in {"ocl", "ucl"} -> SetCurrentLimit(rf, addr, limit, okW)
      [] kind \in {"bol", "bul"} -> SetBusVoltageLimit(rf, addr, limit, okW)
      [] kind = "pol" -> SetPowerLimit(rf, addr, limit, okW)

\* an enable that writes the Mask/Enable register before it sets the limit
EnableAlertMaskFirst(rf, addr, kind, limit, okR, okL, okW) ==
    LET r == ReadMaskEnableRegister(rf, addr, okR)
        reg == SelectAlert(r.val, kind)
        w == WriteMaskEnableRegister(rf, addr, reg, okW)
        l == SetLimitFor(w.rf, addr, kind, limit, okL)
    IN  Done(l.rf, BoolValue(w.ret), <<r.tx, w.tx>> \o l.bus)

\* INA260::enableOverCurrentLimitAlert .. enableOverPowerLimitAlert: read the
\* Mask/Enable register, assign the five members, call the limit setter
\* (its result is dropped), write the Mask/Enable register and return the
\* result of that write.
EnableAlert(rf, addr, kind, limit, okR, okL, okW) ==
    LET r == ReadMaskEnableRegister(rf, addr, okR)
        reg == SelectAlert(r.val, kind)
        l == SetLimitFor(rf, addr, kind, limit, okL)
        w == WriteMaskEnableRegister(l.rf, addr, reg, okW)
    IN  Done(w.rf, BoolValue(w.ret), <<r.tx>> \o l.bus \o <<w.tx>>)

EnableOverCurrentLimitAlert(rf, addr, milliAmps, okR, okL, okW) ==
    EnableAlert(rf, addr, "ocl", milliAmps, okR, okL, okW)

EnableUnderCurrentLimitAlert(rf, addr, milliAmps, okR, okL, okW) ==
    EnableAlert(rf, addr, "ucl", milliAmps, okR, okL, okW)

EnableBusOvertLimitAlert(rf, addr, milliVolts, okR, okL, okW) ==
    EnableAlert(rf, addr, "bol", milliVolts, okR, okL, okW)

EnableBusUnderLimitAlert(rf, addr, milliVolts, okR, okL, okW) ==
    EnableAlert(rf, addr, "bul", milliVolts, okR, okL, okW)

EnableOverPowerLimitAlert(rf, addr, milliWatts, okR, okL, okW) ==
    EnableAlert(rf, addr, "pol", milliWatts, okR, okL, okW)

(***************************************************************************)
(* Device discovery                                                        *)
(***************************************************************************)
ScanFirst == 1
ScanEnd == 127

\* the zero-length transaction of findDevices: acknowledged by the addresses
\* of acks
Probe(acks, a) == Tx("probe", a, -1, -1, a \in acks)

\* the first address from a on, below ScanEnd, whose probe is acknowledged;
\* ScanEnd when there is none.  The iterations in between store nothing.
NextAck(acks, a) ==
    LET hits == {x \in a .. ScanEnd - 1 : Probe(acks, x).ok}
    IN  IF hits = {} THEN ScanEnd
        ELSE CHOOSE x \in hits : \A y \in hits : x <= y

\* a scan that stores every acknowledging address without counting it
RECURSIVE ScanNoCount(_, _, _, _, _, _)
ScanNoCount(a, acks, devs, cnt, bad, clobber) ==
    LET n == NextAck(acks, a)
    IN  IF n >= ScanEnd THEN [devices |-> devs, deviceCount |-> cnt, oob |-> bad]
        ELSE IF cnt \in 0 .. DevicesLen - 1
             THEN ScanNoCount(n + 1, acks, [devs EXCEPT ![cnt] = n], cnt, bad, clobber)
             ELSE ScanNoCount(n + 1, acks, devs, cnt, TRUE, clobber)

\* The loop of INA260::findDevices from address a on: at every acknowledging
\* address n, devices[deviceCount] = n and deviceCount++.  A store to
\* devices[cnt] with cnt outside 0..15 is undefined: it is recorded (bad) and
\* leaves devices[] alone; where the build lays deviceCount right behind
\* devices[] (clobber), the store to devices[16] replaces deviceCount, which
\* is below 256 there, by the address stored.
RECURSIVE Scan(_, _, _, _, _, _)
Scan(a, acks, devs, cnt, bad, clobber) ==
    LET n == NextAck(acks, a)
    IN  IF n >= ScanEnd THEN [devices |-> devs, deviceCount |-> cnt, oob |-> bad]
        ELSE IF cnt \in 0 .. DevicesLen - 1
             THEN Scan(n + 1, acks, [devs EXCEPT ![cnt] = n], cnt + 1, bad, clobber)
             ELSE IF clobber /\ cnt = DevicesLen
                  THEN Scan(n + 1, acks, devs, n + 1, TRUE, clobber)
                  ELSE Scan(n + 1, acks, devs, cnt + 1, TRUE, clobber)

\* INA260::findDevices
FindDevicesFrom(acks, devs, cnt, clobber) ==
    [end |-> Scan(ScanFirst, acks, devs, cnt, FALSE, clobber),
     bus |-> [a \in ScanFirst .. ScanEnd - 1 |-> Probe(acks, a)]]

(***************************************************************************)
(* Actions: one per method of the class                                    *)
(***************************************************************************)
driverVars == <<address, devices, deviceCount, oob, wireInitialized, intBits,
                ackSet, faults, addressSet>>

\* the outcomes of a bus transaction: acknowledged (two bytes delivered), or
\* not
Outcomes == IF faults THEN BOOLEAN ELSE {TRUE}

CallRecord(op, arg, ret, bus) == [op |-> op, arg |-> arg, ret |-> ret, bus |-> bus]

AllOk(bus) == \A i \in DOMAIN bus : bus[i].ok

\* a register method has returned: h is what its handler yields
Complete(op, arg, h) ==
    /\ call' = CallRecord(op, arg, h.ret, h.bus)
    /\ regs' = h.rf
    /\ clean' = (clean /\ AllOk(h.bus))

Modes == 0 .. 7
ConversionTimes == 0 .. 7
AveragingCounts == 0 .. 7

DoBegin ==
    \E okW \in Outcomes :
        /\ Complete("begin", NoValue, Begin(regs, address, okW))
        /\ wireInitialized' = TRUE
        /\ UNCHANGED <<address, devices, deviceCount, oob, intBits, ackSet,
                       faults, addressSet, lastEnable>>

DoReset ==
    \E okW \in Outcomes :
        /\ Complete("reset", NoValue, Reset(regs, address, okW))
        /\ UNCHANGED <<driverVars, lastEnable>>

DoSetAddress(addrs) ==
    \E a \in addrs :
        /\ address' = a
        /\ addressSet' = TRUE
        /\ call' = CallRecord("setAddress", NumValue(a), NoValue, <<>>)
        /\ UNCHANGED <<devices, deviceCount, oob, wireInitialized, intBits, regs,
                       ackSet, faults, clean, lastEnable>>

DoGetAddress ==
    /\ call' = CallRecord("getAddress", NoValue, NumValue(address), <<>>)
    /\ UNCHANGED <<driverVars, regs, clean, lastEnable>>

DoFindDevices ==
    /\ ~oob
    /\ \E clobber \in BOOLEAN :
          LET f == FindDevicesFrom(ackSet, devices, deviceCount, clobber)
          IN  /\ devices' = f.end.devices
              /\ deviceCount' = f.end.deviceCount
              /\ oob' = f.end.oob
              /\ call' = CallRecord("findDevices", NumValue(deviceCount), NoValue,
                                        f.bus)
    /\ UNCHANGED <<address, wireInitialized, intBits, regs, ackSet, faults,
                   addressSet, clean, lastEnable>>

\* the read-only accessors
Reader(op, h) ==
    /\ Complete(op, NoValue, h)
    /\ UNCHANGED <<driverVars, lastEnable>>

DoReadCurrent ==
    \E okR \in Outcomes : Reader("readCurrent", ReadCurrent(regs, address, okR))

DoReadBusVoltage ==
    \E okR \in Outcomes : Reader("readBusVoltage", ReadBusVoltage(regs, address, okR))

DoReadPower ==
    \E okR \in Outcomes : Reader("readPower", ReadPower(regs, address, intBits, okR))

DoReadAlertLimitRegister ==
    \E okM, okL \in Outcomes :
        Reader("readAlertLimitRegister",
               ReadAlertLimitRegister(regs, address, intBits, okM, okL))

DoReadConfigurationRegister ==
    \E okR \in Outcomes :
        Reader("readConfigurationRegister", ReadConfiguration(regs, address, okR))

DoReadMaskEnableRegister ==
    \E okR \in Outcomes :
        Reader("readMaskEnableRegister", ReadMaskEnable(regs, address, okR))

DoReadDieId ==
    \E okR \in Outcomes : Reader("readDieId", ReadDieId(regs, address, okR))

DoReadManufactuerId ==
    \E okR \in Outcomes :
        Reader("readManufactuerId", ReadManufactuerId(regs, address, okR))

DoGetMode ==
    \E okR \in Outcomes : Reader("getMode", GetMode(regs, address, okR))

DoGetCurrentConversionTime ==
    \E okR \in Outcomes :
        Reader("getCurrentConversionTime", GetCurrentConversionTime(regs, address, okR))

DoGetVoltageConversionTime ==
    \E okR \in Outcomes :
        Reader("getVoltageConversionTime", GetVoltageConversionTime(regs, address, okR))

DoGetAveragingCount ==
    \E okR \in Outcomes :
        Reader("getAveragingCount", GetAveragingCount(regs, address, okR))

DoIsAlert ==
    \E okR \in Outcomes : Reader("isAlert", IsAlert(regs, address, okR))

DoIsMathOverFlow ==
    \E okR \in Outcomes : Reader("isMathOverFlow", IsMathOverFlow(regs, address, okR))

DoIsConversionRready ==
    \E okR \in Outcomes :
        Reader("isConversionRready", IsConversionRready(regs, address, okR))

DoIsAlertPolaritySet ==
    \E okR \in Outcomes :
        Reader("isAlertPolaritySet", IsAlertPolaritySet(regs, address, okR))

DoIsAlertLatchSet ==
    \E okR \in Outcomes :
        Reader("isAlertLatchSet", IsAlertLatchSet(regs, address, okR))

DoClearAlert ==
    \E okR \in Outcomes : Reader("clearAlert", ClearAlert(regs, address, okR))

\* the setters
Setter(op, arg, h) ==
    /\ Complete(op, arg, h)
    /\ UNCHANGED <<driverVars, lastEnable>>

DoSetMode(args) ==
    \E mode \in args, okR, okW \in Outcomes :
        Setter("setMode", NumValue(mode), SetMode(regs, address, mode, okR, okW))

DoSetCurrentConversionTime(args) ==
    \E time \in args, okR, okW \in Outcomes :
        Setter("setCurrentConversionTime", NumValue(time),
               SetCurrentConversionTime(regs, address, time, okR, okW))

DoSetVoltageConversionTime(args) ==
    \E time \in args, okR, okW \in Outcomes :
        Setter("setVoltageConversionTime", NumValue(time),
               SetVoltageConversionTime(regs, address, time, okR, okW))

DoSetAveragingCount(args) ==
    \E count \in args, okR, okW \in Outcomes :
        Setter("setAveragingCount", NumValue(count),
               SetAveragingCount(regs, address, count, okR, okW))

DoSetAlertPolarity ==
    \E polarity \in BOOLEAN, okR, okW \in Outcomes :
        Setter("setAlertPolarity", BoolValue(polarity),
               SetAlertPolarity(regs, address, polarity, okR, okW))

DoSetAlertLatch ==
    \E latch \in BOOLEAN, okR, okW \in Outcomes :
        Setter("setAlertLatch", BoolValue(latch),
               SetAlertLatch(regs, address, latch, okR, okW))

DoSetConversionReadyAlert ==
    \E state \in BOOLEAN, okR, okW \in Outcomes :
        Setter("setConversionReadyAlert", BoolValue(state),
               SetConversionReadyAlert(regs, address, state, okR, okW))

DoSetCurrentLimit(limits) ==
    \E m \in limits, okW \in Outcomes :
        Setter("setCurrentLimit", NumValue(m), SetCurrentLimit(regs, address, m, okW))

DoSetBusVoltageLimit(limits) ==
    \E m \in limits, okW \in Outcomes :
        Setter("setBusVoltageLimit", NumValue(m), SetBusVoltageLimit(regs, address, m, okW))

DoSetPowerLimit(limits) ==
    \E m \in limits, okW \in Outcomes :
        Setter("setPowerLimit", NumValue(m), SetPowerLimit(regs, address, m, okW))

\* the enable*Alert methods
Enabler(op, kind, arg, h) ==
    /\ Complete(op, arg, h)
    /\ lastEnable' = kind
    /\ UNCHANGED driverVars

DoEnableOverCurrentLimitAlert(limits) ==
    \E m \in limits, okR, okL, okW \in Outcomes :
        Enabler("enableOverCurrentLimitAlert", "ocl", NumValue(m),
                EnableOverCurrentLimitAlert(regs, address, m, okR, okL, okW))

DoEnableUnderCurrentLimitAlert(limits) ==
    \E m \in limits, okR, okL, okW \in Outcomes :
        Enabler("enableUnderCurrentLimitAlert", "ucl", NumValue(m),
                EnableUnderCurrentLimitAlert(regs, address, m, okR, okL, okW))

DoEnableBusOvertLimitAlert(limits) ==
    \E m \in limits, okR, okL, okW \in Outcomes :
        Enabler("enableBusOvertLimitAlert", "bol", NumValue(m),
                EnableBusOvertLimitAlert(regs, address, m, okR, okL, okW))

DoEnableBusUnderLimitAlert(limits) ==
    \E m \in limits, okR, okL, okW \in Outcomes :
        Enabler("enableBusUnderLimitAlert", "bul", NumValue(m),
                EnableBusUnderLimitAlert(regs, address, m, okR, okL, okW))

DoEnableOverPowerLimitAlert(limits) ==
    \E m \in limits, okR, okL, okW \in Outcomes :
        Enabler("enableOverPowerLimitAlert", "pol", NumValue(m),
                EnableOverPowerLimitAlert(regs, address, m, okR, okL, okW))

\* the device completes a conversion: the measurement registers take new
\* values
DeviceConversion(raws) ==
    \E i, v, p \in raws :
        /\ regs' = [regs EXCEPT ![INA260_CURRENT_REGISTER] = i,
                                ![INA260_VOLTAGE_REGISTER] = v,
                                ![INA260_POWER_REGISTER] = p]
        /\ regs' # regs
        /\ call' = CallRecord("conversion", NoValue, NoValue, <<>>)
        /\ UNCHANGED <<driverVars, clean, lastEnable>>

(***************************************************************************)
(* Initial states                                                          *)
(***************************************************************************)
\* INA260::INA260(void) {} initialises no member.  An object of static
\* storage (the sketch's "static INA260 ina260") starts zeroed; the members
\* of an automatic object start with whatever the stack held.
StaticAddress == 0
StaticDeviceCount == 0
IndeterminateAddresses == {0, 64, 255}
IndeterminateCounts == {-1, 0, 3, 16}

\* the builds: int of 16 bits (AVR) or of 32 bits (ARM, ESP, ...)
IntWidths == {16, 32}

RegFile(cfg, cur, vol, pow, me, lim, mfg, die) ==
    [r \in Registers |->
        CASE r = INA260_CONFIG_REGISTER -> cfg
          [] r = INA260_CURRENT_REGISTER -> cur
          [] r = INA260_VOLTAGE_REGISTER -> vol
          [] r = INA260_POWER_REGISTER -> pow
          [] r = INA260_MASK_ENABLE_REGISTER -> me
          [] r = INA260_ALERT_LIMIT_REGISTER -> lim
          [] r = INA260_MANUFACTURER_ID_REGISTER -> mfg
          [] r = INA260_DIE_ID_REGISTER -> die]

Constructed(addrs, counts, widths, acks, noise, files) ==
    /\ address \in addrs
    /\ devices = [i \in 0 .. DevicesLen - 1 |-> 0]
    /\ deviceCount \in counts
    /\ oob = FALSE
    /\ wireInitialized = FALSE
    /\ intBits \in widths
    /\ regs \in files
    /\ ackSet \in acks
    /\ faults \in noise
    /\ call = CallRecord("construct", NoValue, NoValue, <<>>)
    /\ addressSet = FALSE
    /\ clean = TRUE
    /\ lastEnable = "none"

(***************************************************************************)
(* The measurement readers over the whole range of raw values              *)
(***************************************************************************)
MaxRaw == 65535

ScaleFiles == {RegFile(0, r, r, r, 0, 0, 0, 0) : r \in 0 .. MaxRaw}

InitScale ==
    Constructed({StaticAddress}, {StaticDeviceCount}, IntWidths, {{}}, {FALSE},
                ScaleFiles)

NextScale ==
    \/ DoReadCurrent
    \/ DoReadBusVoltage
    \/ DoReadPower

SpecScale == InitScale /\ [][NextScale]_vars

(***************************************************************************)
(* The single-field setters                                                *)
(***************************************************************************)
\* starting values of the Configuration and Mask/Enable registers: all
\* zeros, all ones, the power-on configuration 0x6127, alternating bits
ConfigStarts == {24871, 65535}
MaskStarts == {0, 65535, 21845}

\* arguments of the three-bit setters: 010 and 101
FieldArgs == {2, 5}

SetterFiles ==
    {RegFile(c, 0, 0, 0, m, 0, 0, 0) : c \in ConfigStarts, m \in MaskStarts}

\* the setters compute in 16 bits only: the width of int plays no part
InitSetters ==
    Constructed({StaticAddress}, {StaticDeviceCount}, {32}, {{}}, {FALSE},
                SetterFiles)

NextSetters ==
    \/ DoSetMode(FieldArgs)
    \/ DoSetCurrentConversionTime(FieldArgs)
    \/ DoSetVoltageConversionTime(FieldArgs)
    \/ DoSetAveragingCount(FieldArgs)
    \/ DoSetAlertPolarity
    \/ DoSetAlertLatch
    \/ DoSetConversionReadyAlert

SpecSetters == InitSetters /\ [][NextSetters]_vars

(***************************************************************************)
(* The alert methods and the Mask/Enable setters on a sound bus            *)
(***************************************************************************)
\* limits passed to the alert methods: one that is no multiple of 5 or 10,
\* and the largest uint16_t
AlertLimits == {1234, 65535}

AlertFiles == {RegFile(0, 0, 0, 0, m, 0, 0, 0) : m \in MaskStarts}

\* no method of this specification multiplies in the width of int
InitMask ==
    Constructed({StaticAddress}, {StaticDeviceCount}, {32}, {{}}, {FALSE},
                AlertFiles)

NextMask ==
    \/ DoEnableOverCurrentLimitAlert(AlertLimits)
    \/ DoEnableUnderCurrentLimitAlert(AlertLimits)
    \/ DoEnableBusOvertLimitAlert(AlertLimits)
    \/ DoEnableBusUnderLimitAlert(AlertLimits)
    \/ DoEnableOverPowerLimitAlert(AlertLimits)
    \/ DoSetAlertPolarity
    \/ DoSetAlertLatch
    \/ DoSetConversionReadyAlert

SpecMask == InitMask /\ [][NextMask]_vars

(***************************************************************************)
(* The alert methods on a bus that can fail                                *)
(***************************************************************************)
\* a Mask/Enable register with alternating bits: len, ovf, aff, cnvr, bul and
\* ucl set
FaultyFiles == {RegFile(0, 0, 0, 0, 21845, 0, 0, 0)}

InitAlertFaults ==
    Constructed({StaticAddress}, {StaticDeviceCount}, {32}, {{}}, {TRUE},
                FaultyFiles)

NextAlertFaults ==
    \/ DoEnableOverCurrentLimitAlert(AlertLimits)
    \/ DoEnableUnderCurrentLimitAlert(AlertLimits)
    \/ DoEnableBusOvertLimitAlert(AlertLimits)
    \/ DoEnableBusUnderLimitAlert(AlertLimits)
    \/ DoEnableOverPowerLimitAlert(AlertLimits)

SpecAlertFaults == InitAlertFaults /\ [][NextAlertFaults]_vars

(***************************************************************************)
(* The alert limit round trip on a sound bus                               *)
(***************************************************************************)
\* limits 0 .. MaxLimit, and the limits around 2^15 and up to 2^16 - 1
MaxLimit == 30
RoundTripLimits ==
    (0 .. MaxLimit) \cup {32767, 32768} \cup (65531 .. 65535)

InitLimit ==
    Constructed({StaticAddress}, {StaticDeviceCount}, IntWidths, {{}}, {FALSE},
                FaultyFiles)

NextLimit ==
    \/ DoEnableOverCurrentLimitAlert(RoundTripLimits)
    \/ DoEnableUnderCurrentLimitAlert(RoundTripLimits)
    \/ DoEnableBusOvertLimitAlert(RoundTripLimits)
    \/ DoEnableBusUnderLimitAlert(RoundTripLimits)
    \/ DoEnableOverPowerLimitAlert(RoundTripLimits)
    \/ DoReadAlertLimitRegister

SpecLimit == InitLimit /\ [][NextLimit]_vars

(***************************************************************************)
(* The read-only accessors, with the device converting in between          *)
(***************************************************************************)
\* raw measurements: a small one, one whose tenfold exceeds 16 bits, the
\* largest
RawSamples == {1, 40000, 65535}

\* a device with the power alert enabled (pol, cnvr, len set) and an alert
\* limit of 1234 set, or with the over-current alert and the largest limit
ReaderFiles ==
    {RegFile(24871, 1, 1, 1, 3073, 1234, 21577, 8816),
     RegFile(24871, 1, 1, 1, 32786, 65535, 21577, 8816)}

InitRead ==
    Constructed({StaticAddress}, {StaticDeviceCount}, IntWidths, {{}}, {TRUE},
                ReaderFiles)

NextRead ==
    \/ DoReadCurrent
    \/ DoReadBusVoltage
    \/ DoReadPower
    \/ DoReadAlertLimitRegister
    \/ DoReadConfigurationRegister
    \/ DoReadMaskEnableRegister
    \/ DoReadDieId
    \/ DoReadManufactuerId
    \/ DoGetMode
    \/ DoGetCurrentConversionTime
    \/ DoGetVoltageConversionTime
    \/ DoGetAveragingCount
    \/ DoIsAlert
    \/ DoIsMathOverFlow
    \/ DoIsConversionRready
    \/ DoIsAlertPolaritySet
    \/ DoIsAlertLatchSet
    \/ DoClearAlert
    \/ DeviceConversion(RawSamples)

SpecRead == InitRead /\ [][NextRead]_vars

(***************************************************************************)
(* Device discovery on a bus that does not change                          *)
(***************************************************************************)
\* the acknowledging addresses: every subset of the two ends and the middle
\* of the address space, and buses of 16, 17 and 21 devices
AckSets ==
    (SUBSET {0, 1, 64, 65, 126, 127})
        \cup {1 .. 16, 1 .. 17, 0 .. 15, 111 .. 127, 60 .. 80}

InitScan ==
    Constructed({StaticAddress}, IndeterminateCounts, {32}, AckSets, {FALSE},
                {RegFile(0, 0, 0, 0, 0, 0, 0, 0)})

NextScan == DoFindDevices

SpecScan == InitScan /\ [][NextScan]_vars

(***************************************************************************)
(* The sketch: construction, begin, the address, register traffic          *)
(***************************************************************************)
\* arguments of setAddress: ADDREESS_0x40 and ADDREESS_0x41
AddressArgs == {64, 65}

Init ==
    Constructed(IndeterminateAddresses, {StaticDeviceCount}, IntWidths, {{}},
                {TRUE}, {RegFile(24871, 40000, 40000, 40000, 0, 0, 21577, 8816)})

Next ==
    \/ DoBegin
    \/ DoReset
    \/ DoSetAddress(AddressArgs)
    \/ DoGetAddress
    \/ DoReadCurrent
    \/ DoReadBusVoltage
    \/ DoReadPower
    \/ DoSetMode(FieldArgs)

Spec == Init /\ [][Next]_vars

(***************************************************************************)
(* Properties                                                              *)
(***************************************************************************)
Bit(x, i) == (x \div Pow2(i)) % 2

FieldBits(f) == f.shift .. (f.shift + f.width - 1)

ConfigSetters ==
    {"setMode", "setCurrentConversionTime", "setVoltageConversionTime",
     "setAveragingCount"}

MaskSetters == {"setAlertPolarity", "setAlertLatch", "setConversionReadyAlert"}

EnableOps ==
    {"enableOverCurrentLimitAlert", "enableUnderCurrentLimitAlert",
     "enableBusOvertLimitAlert", "enableBusUnderLimitAlert",
     "enableOverPowerLimitAlert"}

\* the register and the member a single-field setter is for
SetterRegister(op) ==
    IF op \in ConfigSetters THEN INA260_CONFIG_REGISTER
    ELSE INA260_MASK_ENABLE_REGISTER

SetterField(op) ==
    CASE op = "setMode" -> CfgMode
      [] op = "setCurrentConversionTime" -> CfgIshct
      [] op = "setVoltageConversionTime" -> CfgVbusct
      [] op = "setAveragingCount" -> CfgAvg
      [] op = "setAlertPolarity" -> MeApol
      [] op = "setAlertLatch" -> MeLen
      [] op = "setConversionReadyAlert" -> MeCnvr

\* the argument as the integer assigned: a bool converts to 0 or 1
ArgInt(arg) == IF arg[1] = "bool" THEN BoolInt(arg[2]) ELSE arg[2]

\* a step in which a single-field setter ran with its read and its write
\* successful
SetterStep ==
    /\ call'.op \in ConfigSetters \cup MaskSetters
    /\ AllOk(call'.bus)

\* C1: a single-field setter whose read delivers two bytes and whose write
\* is acknowledged reads the register once, writes back the value read with
\* only its own member replaced by the argument, and leaves every other bit
\* of the register, and every other register, as it was before the call.
C1_SetterFrame ==
    [][SetterStep =>
        LET op == call'.op
            r == SetterRegister(op)
            f == SetterField(op)
            rd == call'.bus[1]
            wr == call'.bus[2]
        IN  /\ Len(call'.bus) = 2
            /\ rd.kind = "read" /\ rd.reg = r /\ rd.val = regs[r]
            /\ wr.kind = "write" /\ wr.reg = r /\ wr.val = regs'[r]
            /\ \A i \in 0 .. 15 :
                  Bit(wr.val, i) =
                      IF i \in FieldBits(f)
                      THEN Bit(ArgInt(call'.arg), i - f.shift)
                      ELSE Bit(rd.val, i)
            /\ \A q \in Registers \ {r} : regs'[q] = regs[q]]_vars

\* a setAveragingCount that changed avg in a register whose other members
\* and reserved bits are not all zero, after other setters have run
C1_Witness ==
    /\ call.op = "setAveragingCount"
    /\ AllOk(call.bus)
    /\ GetField(call.bus[1].val, CfgAvg) # call.arg[2]
    /\ GetField(call.bus[1].val, CfgMode) = 5
    /\ GetField(call.bus[1].val, CfgRst) = 1
    /\ regs[INA260_MASK_ENABLE_REGISTER] \notin MaskStarts

AlertBits(raw) == [k \in AlertKinds |-> GetField(raw, AlertField(k))]

\* C2: once an enable*Alert method has been called, and while every bus
\* transaction has succeeded, exactly one of ocl, ucl, bol, bul, pol is set
\* in the device's Mask/Enable register: the one of the most recent
\* enable*Alert call.
C2_OneAlertEnabled ==
    (clean /\ lastEnable # "none") =>
        \A k \in AlertKinds :
            AlertBits(regs[INA260_MASK_ENABLE_REGISTER])[k] = BoolInt(k = lastEnable)

\* a Mask/Enable setter ran after enableBusOvertLimitAlert had replaced
\* another enabled alert
C2_Witness ==
    /\ clean
    /\ lastEnable = "bol"
    /\ call.op \in MaskSetters
    /\ regs[INA260_MASK_ENABLE_REGISTER] # call.bus[1].val
    /\ AlertBits(regs[INA260_MASK_ENABLE_REGISTER])["bol"] = 1

ReadAfterEnable ==
    /\ call.op \in EnableOps
    /\ call'.op = "readAlertLimitRegister"
    /\ AllOk(call.bus) /\ AllOk(call'.bus)

\* C4: readAlertLimitRegister called after enable*Alert(m), all bus
\* transactions successful, returns the largest multiple of 1.25 that is at
\* most m for the current and bus voltage alerts, and the largest multiple of
\* 10 that is at most m for the power alert; the scale is 10 exactly when the
\* pol bit of the device's Mask/Enable register is set.  (Quarter units: the
\* result is call'.ret / 4.)
C4_LimitRoundTrip ==
    [][ReadAfterEnable =>
        LET m == call.arg[2]
            v == call'.ret[2]
            pol == GetField(regs[INA260_MASK_ENABLE_REGISTER], MePol) = 1
            raw == regs[INA260_ALERT_LIMIT_REGISTER]
        IN  /\ pol <=> (call.op = "enableOverPowerLimitAlert")
            /\ v = IF pol THEN 40 * raw ELSE 5 * raw
            /\ IF pol
               THEN v % 40 = 0 /\ 4 * m - 40 < v /\ v <= 4 * m
               ELSE v % 5 = 0 /\ 4 * m - 5 < v /\ v <= 4 * m]_vars

\* the power limit 65535 read back as 65530 in a build with a 16-bit int
C4_Witness ==
    /\ call.op = "readAlertLimitRegister"
    /\ lastEnable = "pol"
    /\ intBits = 16
    /\ regs[INA260_ALERT_LIMIT_REGISTER] = 6553
    /\ call.ret = NumValue(4 * 65530)

\* C6: an enable*Alert call returns true only when both the Alert Limit
\* write and the Mask/Enable write were acknowledged, so that after a true
\* return the device holds the new limit and the new alert selection.
C6_TrueMeansBothWritten ==
    (call.op \in EnableOps /\ call.ret = BoolValue(TRUE)) =>
        /\ call.bus[2].kind = "write" /\ call.bus[2].ok
        /\ call.bus[3].kind = "write" /\ call.bus[3].ok
        /\ regs[INA260_ALERT_LIMIT_REGISTER] = call.bus[2].val
        /\ regs[INA260_MASK_ENABLE_REGISTER] = call.bus[3].val

ReadOnlyOps ==
    {"readCurrent", "readBusVoltage", "readPower", "readAlertLimitRegister",
     "readConfigurationRegister", "readMaskEnableRegister", "readDieId",
     "readManufactuerId", "getMode", "getCurrentConversionTime",
     "getVoltageConversionTime", "getAveragingCount", "isAlert",
     "isMathOverFlow", "isConversionRready", "isAlertPolaritySet",
     "isAlertLatchSet", "clearAlert"}

\* the registers a read-only accessor reads, in order
ReadsOf(op) ==
    CASE op = "readCurrent" -> <<INA260_CURRENT_REGISTER>>
      [] op = "readBusVoltage" -> <<INA260_VOLTAGE_REGISTER>>
      [] op = "readPower" -> <<INA260_POWER_REGISTER>>
      [] op = "readAlertLimitRegister" ->
            <<INA260_MASK_ENABLE_REGISTER, INA260_ALERT_LIMIT_REGISTER>>
      [] op = "readDieId" -> <<INA260_DIE_ID_REGISTER>>
      [] op = "readManufactuerId" -> <<INA260_MANUFACTURER_ID_REGISTER>>
      [] op \in {"readConfigurationRegister", "getMode",
                 "getCurrentConversionTime", "getVoltageConversionTime",
                 "getAveragingCount"} -> <<INA260_CONFIG_REGISTER>>
      [] OTHER -> <<INA260_MASK_ENABLE_REGISTER>>

\* a non-negative product below 2^31 as held in an int of the given width
\* (unsigned arithmetic at 16 bits)
InIntWidth(x, bits) == IF bits = 16 THEN x % 65536 ELSE x

\* the result of a read-only accessor as a function of the values its reads
\* delivered (quarter units for the scaled ones), in a build of the given
\* width of int
ResultOf(op, vals, bits) ==
    CASE op \in {"readCurrent", "readBusVoltage"} -> NumValue(5 * vals[1])
      [] op = "readPower" -> NumValue(4 * InIntWidth(10 * vals[1], bits))
      [] op = "readAlertLimitRegister" ->
            IF Bit(vals[1], 11) = 1
            THEN NumValue(4 * InIntWidth(10 * vals[2], bits))
            ELSE NumValue(5 * vals[2])
      [] op \in {"readConfigurationRegister", "readMaskEnableRegister",
                 "readDieId"} -> NumValue(vals[1])
      [] op = "readManufactuerId" ->
            StringValue(<<vals[1] \div 256, vals[1] % 256>>)
      [] op = "getMode" -> NumValue(vals[1] % 8)
      [] op = "getCurrentConversionTime" -> NumValue((vals[1] \div 8) % 8)
      [] op = "getVoltageConversionTime" -> NumValue((vals[1] \div 64) % 8)
      [] op = "getAveragingCount" -> NumValue((vals[1] \div 512) % 8)
      [] op = "isAlertLatchSet" -> BoolValue(Bit(vals[1], 0) = 1)
      [] op = "isAlertPolaritySet" -> BoolValue(Bit(vals[1], 1) = 1)
      [] op = "isMathOverFlow" -> BoolValue(Bit(vals[1], 2) = 1)
      [] op = "isConversionRready" -> BoolValue(Bit(vals[1], 3) = 1)
      [] op = "isAlert" -> BoolValue(Bit(vals[1], 4) = 1)
      [] op = "clearAlert" -> NoValue

\* C9 as stated: a read-only accessor performs at most one register read and
\* no write, and a read that delivers two bytes delivers the value the device
\* holds.
C9_AtMostOneRead ==
    call.op \in ReadOnlyOps =>
        /\ Len(call.bus) <= 1
        /\ \A i \in DOMAIN call.bus :
              /\ call.bus[i].kind = "read"
              /\ call.bus[i].ok => call.bus[i].val = regs[call.bus[i].reg]

\* C9, amended: a read-only accessor issues no write and leaves the device's
\* registers as they are; it performs exactly one register read, except
\* readAlertLimitRegister, which performs two (Mask/Enable, then Alert
\* Limit); each read delivers the value the device holds at the time of the
\* call, or 0 when fewer than two bytes arrive, and the result is computed
\* from the values delivered by the reads of that very call.
C9_ReadersReadOnly ==
    [][call'.op \in ReadOnlyOps =>
        LET op == call'.op
            bus == call'.bus
            want == ReadsOf(op)
        IN  /\ regs' = regs
            /\ Len(bus) = Len(want)
            /\ Len(bus) = IF op = "readAlertLimitRegister" THEN 2 ELSE 1
            /\ \A i \in DOMAIN bus :
                  /\ bus[i].kind = "read"
                  /\ bus[i].reg = want[i]
                  /\ bus[i].val = IF bus[i].ok THEN regs[want[i]] ELSE 0
            /\ call'.ret = ResultOf(op, [i \in DOMAIN bus |-> bus[i].val], intBits)]_vars

\* readBusVoltage returned the value of a conversion that completed after
\* construction
C9_Witness ==
    /\ call.op = "readBusVoltage"
    /\ AllOk(call.bus)
    /\ regs[INA260_VOLTAGE_REGISTER] = 40000
    /\ regs[INA260_CURRENT_REGISTER] = 65535
    /\ call.ret = NumValue(4 * 50000)

\* C3: with r the raw value the device holds, readCurrent and readBusVoltage
\* return r * 1.25 and readPower returns r * 10, for every r in 0 .. 65535
\* (quarter units: 5 * r and 40 * r).
C3_ScaleFactors ==
    /\ (call.op = "readCurrent" /\ AllOk(call.bus)) =>
            call.ret = NumValue(5 * regs[INA260_CURRENT_REGISTER])
    /\ (call.op = "readBusVoltage" /\ AllOk(call.bus)) =>
            call.ret = NumValue(5 * regs[INA260_VOLTAGE_REGISTER])
    /\ (call.op = "readPower" /\ AllOk(call.bus)) =>
            call.ret = NumValue(40 * regs[INA260_POWER_REGISTER])

\* C10: the Current register is signed: raw values 0x8000 .. 0xFFFF read as
\* (r - 65536) * 1.25, raw values 0 .. 0x7FFF as r * 1.25.
C10_SignedCurrent ==
    (call.op = "readCurrent" /\ AllOk(call.bus)) =>
        LET r == regs[INA260_CURRENT_REGISTER]
        IN  call.ret = NumValue(IF r >= 32768 THEN 5 * (r - 65536) ELSE 5 * r)

ScanRange == ScanFirst .. ScanEnd - 1

IsAscendingListOf(devs, n, A) ==
    /\ {devs[i] : i \in 0 .. n - 1} = A
    /\ \A i, j \in 0 .. n - 1 : i < j => devs[i] < devs[j]

\* C5 as stated: findDevices called with deviceCount = 0 on a bus with at
\* most 16 acknowledging addresses probes every address of 0 .. 127 once, in
\* ascending order, and leaves deviceCount and devices[] listing all the
\* acknowledging addresses.
C5_ScanWholeSpace ==
    (call.op = "findDevices" /\ call.arg = NumValue(0) /\ Cardinality(ackSet) <= DevicesLen) =>
        /\ Len(call.bus) = 128
        /\ \A i \in DOMAIN call.bus : call.bus[i].addr = i - 1
        /\ deviceCount = Cardinality(ackSet)
        /\ IsAscendingListOf(devices, deviceCount, ackSet)

\* C5, amended: findDevices called with deviceCount = 0 on a bus where at
\* most 16 of the addresses 1 .. 126 acknowledge probes each address of
\* 1 .. 126 exactly once, in ascending order, and no other; on return
\* deviceCount is the number of acknowledging addresses among 1 .. 126 and
\* devices[0 .. deviceCount - 1] lists them in ascending order.
C5_ScanRange ==
    LET A == ackSet \cap ScanRange
    IN  (call.op = "findDevices" /\ call.arg = NumValue(0) /\ Cardinality(A) <= DevicesLen) =>
            /\ Len(call.bus) = 126
            /\ \A i \in DOMAIN call.bus :
                  /\ call.bus[i].kind = "probe"
                  /\ call.bus[i].addr = i
                  /\ call.bus[i].ok = (i \in ackSet)
            /\ ~oob
            /\ deviceCount = Cardinality(A)
            /\ IsAscendingListOf(devices, deviceCount, A)

\* a scan from deviceCount = 0 of a bus where 0, 1, 64, 126 and 127
\* acknowledge
C5_Witness ==
    /\ call.op = "findDevices"
    /\ call.arg = NumValue(0)
    /\ ackSet = {0, 1, 64, 126, 127}
    /\ deviceCount = 3
    /\ devices[2] = 126

\* C7: begin() returns false whenever its reset write to the Configuration
\* register is not acknowledged.
C7_BeginReportsFailure ==
    (call.op = "begin" /\ ~AllOk(call.bus)) => call.ret = BoolValue(FALSE)

\* C8: until setAddress is called, getAddress returns 0x40 and every bus
\* transaction of a register method is addressed to 0x40; after
\* setAddress(a) they use a.
C8_DefaultAddress ==
    LET target == IF addressSet THEN address ELSE INA260_I2CADDR_DEFAULT
    IN  /\ call.op = "getAddress" => call.ret = NumValue(target)
        /\ call.op # "findDevices" =>
              \A i \in DOMAIN call.bus : call.bus[i].addr = target


(***************************************************************************)
(* The order of the bus operations of an enable*Alert call                 *)
(***************************************************************************)
\* the limit in the units of the Alert Limit register: 1.25 mA or 1.25 mV per
\* bit for the current and bus voltage alerts, 10 mW per bit for the power
\* alert, truncated
LimitInRegisterUnits(kind, limit) ==
    IF kind = "pol" THEN limit \div 10 ELSE (limit * 100) \div 125

\* C11: every enable*Alert call issues, in this order, one read of the
\* Mask/Enable register, one write of the Alert Limit register carrying the
\* limit passed (in register units) and one write of the Mask/Enable
\* register carrying the selected alert bit; the device's registers change
\* through these writes only, so that when the Mask/Enable write is
\* acknowledged and the bit becomes set, the Alert Limit register holds the
\* limit of that call if the limit write was acknowledged.
C11_EnableOrder ==
    [][call'.op \in EnableOps =>
        LET bus == call'.bus
            kind == lastEnable'
            raw == LimitInRegisterUnits(kind, call'.arg[2])
        IN  /\ Len(bus) = 3
            /\ bus[1].kind = "read"
            /\ bus[1].reg = INA260_MASK_ENABLE_REGISTER
            /\ bus[2].kind = "write"
            /\ bus[2].reg = INA260_ALERT_LIMIT_REGISTER
            /\ bus[2].val = raw
            /\ bus[3].kind = "write"
            /\ bus[3].reg = INA260_MASK_ENABLE_REGISTER
            /\ GetField(bus[3].val, AlertField(kind)) = 1
            /\ regs'[INA260_ALERT_LIMIT_REGISTER] =
                    IF bus[2].ok THEN raw
                    ELSE regs[INA260_ALERT_LIMIT_REGISTER]
            /\ regs'[INA260_MASK_ENABLE_REGISTER] =
                    IF bus[3].ok THEN bus[3].val
                    ELSE regs[INA260_MASK_ENABLE_REGISTER]
            /\ \A reg \in Registers \ {INA260_ALERT_LIMIT_REGISTER,
                                         INA260_MASK_ENABLE_REGISTER} :
                  regs'[reg] = regs[reg]]_vars

\* enableOverPowerLimitAlert(1234) had both writes acknowledged after a
\* failed read: the pol bit is set and the Alert Limit register holds 123
C11_Witness ==
    /\ call.op = "enableOverPowerLimitAlert"
    /\ call.arg = NumValue(1234)
    /\ ~call.bus[1].ok /\ call.bus[2].ok /\ call.bus[3].ok
    /\ regs[INA260_ALERT_LIMIT_REGISTER] = 123
    /\ GetField(regs[INA260_MASK_ENABLE_REGISTER], MePol) = 1

(***************************************************************************)
(* Repeated device discovery by the sketch's static object                 *)
(***************************************************************************)
\* static INA260 ina260: devices[] and deviceCount start zeroed
InitRescan ==
    Constructed({StaticAddress}, {StaticDeviceCount}, {32}, AckSets, {FALSE},
                {RegFile(0, 0, 0, 0, 0, 0, 0, 0)})

NextRescan == DoFindDevices

SpecRescan == InitRescan /\ [][NextRescan]_vars

\* the stores one call of findDevices makes on the bus of the model: one per
\* acknowledging address probed, at consecutive indices from the count on
\* entry
StoreIndices(entry) ==
    entry .. (entry + Cardinality(ackSet \cap ScanRange) - 1)

\* C12: after construction and any sequence of findDevices calls, on any
\* bus, 0 <= deviceCount <= 16, every store made by findDevices is to an
\* index within devices[0..15], and repeated scans of an unchanged bus do
\* not grow deviceCount beyond the number of acknowledging devices.
C12_BufferBound ==
    /\ deviceCount \in 0 .. DevicesLen
    /\ ~oob
    /\ call.op = "findDevices" =>
          /\ StoreIndices(call.arg[2]) \subseteq 0 .. DevicesLen - 1
          /\ deviceCount <= Cardinality(ackSet \cap ScanRange)

(***************************************************************************)
(* The read-modify-write methods on a bus whose transactions may fail      *)
(***************************************************************************)
\* the power-on configuration 0x6127 and a Mask/Enable register with
\* alternating bits
RmwFiles == {RegFile(24871, 0, 0, 0, 21845, 0, 0, 0)}

\* argument of the three-bit setters: 101
RmwArgs == {5}

\* limit passed to the alert methods
RmwLimits == {1234}

InitRmwFaults ==
    Constructed({StaticAddress}, {StaticDeviceCount}, {32}, {{}}, {TRUE},
                RmwFiles)

NextRmwFaults ==
    \/ DoSetMode(RmwArgs)
    \/ DoSetAveragingCount(RmwArgs)
    \/ DoSetCurrentConversionTime(RmwArgs)
    \/ DoSetVoltageConversionTime(RmwArgs)
    \/ DoSetAlertPolarity
    \/ DoSetAlertLatch
    \/ DoSetConversionReadyAlert
    \/ DoEnableOverPowerLimitAlert(RmwLimits)

SpecRmwFaults == InitRmwFaults /\ [][NextRmwFaults]_vars

\* the bits of its register a read-modify-write method is meant to set: the
\* member of a single-field setter, the five alert members of an enable
MeantBits(op) ==
    IF op \in EnableOps
    THEN UNION {FieldBits(AlertField(k)) : k \in AlertKinds}
    ELSE FieldBits(SetterField(op))

\* C13: when the read of a read-modify-write setter (the seven single-field
\* setters, enable*Alert) delivers fewer than two bytes, the call changes no
\* bit of the device register outside the member(s) it is meant to set, so
\* that in particular no call that altered other members reports success.
C13_FailedReadKeepsFields ==
    [][(/\ call'.op \in ConfigSetters \cup MaskSetters \cup EnableOps
        /\ ~call'.bus[1].ok) =>
        LET op == call'.op
            r == IF op \in EnableOps THEN INA260_MASK_ENABLE_REGISTER
                 ELSE SetterRegister(op)
        IN  \A i \in (0 .. 15) \ MeantBits(op) :
                Bit(regs'[r], i) = Bit(regs[r], i)]_vars

====
